---- MODULE Spec2Model ----
(***************************************************************************)
(* Model of video.py: the class Video, a wrapper around one                *)
(* cv2.VideoCapture session.  The state of the program is the capture      *)
(* session (is it opened, the frame count it reports, how many frames it   *)
(* can actually decode, its play-head) and the live generator made by      *)
(* Video.__iter__.  Every public method is one action; the record `last`   *)
(* is the observable outcome of the most recent call (what it returned or  *)
(* raised, and which capture calls it made).                               *)
(***************************************************************************)
EXTENDS Integers, Sequences, FiniteSets, TLC

\* Largest frame count a video of the model reports.
MaxFrames == 3
\* Arguments range one past 0..MaxFrames on both sides.
Args == (0 - 1)..(MaxFrames + 1)

VARIABLES
    handle,     \* "absent": Video(...) not called yet; "built": the Video
                \* object exists; "failed": Video(...) raised
    opened,     \* cap.isOpened()
    count,      \* cap.get(CAP_PROP_FRAME_COUNT) of the file
    dec,        \* number of frames cap.read() can decode, dec <= count
    dims,       \* <<height, width>> of the frames, as cap.get reports them
    pos,        \* the play-head, CAP_PROP_POS_FRAMES
    windows,    \* TRUE while a HighGUI window of cv2.imshow exists
    it,         \* the generator object of __iter__
    shw,        \* the call of show in progress, if any
    last        \* outcome of the most recent call

vars == <<handle, opened, count, dec, dims, pos, windows, it, shw, last>>

(***************************************************************************)
(* Frames.  A frame is its index in the stream and its number of channels; *)
(* None is what cap.read() hands back with ret = False.                    *)
(***************************************************************************)
None == <<>>
Frame(i) == <<i, 3>>

\* cv2.cvtColor(data, cv2.COLOR_BGR2GRAY): one channel instead of three.
\* On None it fails (cv2.error, an assertion on the empty input).
cvtColor(data) == <<data[1], 1>>

\* data after the `if cvtgray:` step of a successful read
Convert(data, cvtgray) == IF cvtgray THEN cvtColor(data) ELSE data

(***************************************************************************)
(* The capture session, as the methods use it.                             *)
(***************************************************************************)
\* cap.get(CAP_PROP_FRAME_COUNT): 0 on a session that is not opened.
CapFrameCount == IF opened THEN count ELSE 0

\* self.length
Length == CapFrameCount

\* cap.get(CAP_PROP_FRAME_HEIGHT) and cap.get(CAP_PROP_FRAME_WIDTH): 0 on a
\* session that is not opened.
CapFrameHeight == IF opened THEN dims[1] ELSE 0
CapFrameWidth == IF opened THEN dims[2] ELSE 0

\* cap.read() with the play-head at p: the frame under the play-head and the
\* play-head moved one on, or (False, None) when there is nothing to decode.
CapRead(p) ==
    IF opened /\ p >= 0 /\ p < dec
    THEN [ret |-> TRUE, data |-> Frame(p), pos |-> p + 1]
    ELSE [ret |-> FALSE, data |-> None, pos |-> p]

\* cap.set(CAP_PROP_POS_FRAMES, idx) with the play-head at p: the positions
\* the play-head can have afterwards.  Inside 0..count the seek is exact;
\* outside it the library either clamps or refuses and leaves p.
CapSetUnclamped(idx, p) == IF ~opened THEN {p} ELSE {idx}
CapSet(idx, p) ==
    IF ~opened THEN {p}
    ELSE IF idx < 0 THEN {0, p}
    ELSE IF idx > count THEN {count, p}
    ELSE {idx}

(***************************************************************************)
(* The generator of __iter__.  pc = "none": no generator; "created": the   *)
(* generator object exists and none of its body has run; "suspended": it   *)
(* stands at the yield; "done": its body has ended.  clean is TRUE while    *)
(* no other call has been made since it first ran, and for so long start   *)
(* is the play-head at its first resumption and out the frames it has      *)
(* yielded.  fresh: it was made right after another generator ran to its   *)
(* end, with no call in between.                                           *)
(***************************************************************************)
NoIter == [pc |-> "none", gray |-> FALSE, start |-> 0, out |-> <<>>, clean |-> TRUE,
           fresh |-> FALSE]

Outcome(op, a, b, gray) ==
    [op |-> op, a |-> a, b |-> b, gray |-> gray, pre |-> pos, err |-> "none",
     ret |-> FALSE, data |-> None, frames |-> <<>>, shown |-> <<>>,
     sets |-> 0, reads |-> 0, caps |-> 0]

\* show is a blocking loop: while it runs (pc = "loop") no other method of the
\* single-threaded program can be called.  start and final are its loop
\* variables.
NoShow == [pc |-> "idle", start |-> 0, final |-> 0, gray |-> FALSE]
Idle == shw.pc = "idle"

\* a method can be called: there is a Video object and no call is running
Callable == handle = "built" /\ Idle

\* the frame sizes of the videos of the model
Dims == {<<1, 2>>, <<2, 1>>}
\* what a handle that has no session, or a session that did not open, holds
NoVideo == [opened |-> FALSE, count |-> 0, dec |-> 0, dims |-> <<0, 0>>]
\* the sessions cv2.VideoCapture(videofile) can give on an existing file
Videos ==
    {NoVideo} \cup
    {[opened |-> TRUE, count |-> c, dec |-> d, dims |-> hw] :
        c \in 0..MaxFrames, d \in 0..MaxFrames, hw \in Dims}

\* a call other than a resumption of the generator was made
Disturb ==
    CASE it.pc = "created" -> [it EXCEPT !.fresh = FALSE]
      [] it.pc = "suspended" -> [it EXCEPT !.clean = FALSE, !.fresh = FALSE,
                                           !.start = 0, !.out = <<>>]
      [] OTHER -> NoIter

\* the state after Video(videofile) on an existing file
Init ==
    /\ handle = "built"
    /\ \E v \in Videos :
         /\ v.dec <= v.count
         /\ opened = v.opened /\ count = v.count /\ dec = v.dec /\ dims = v.dims
    /\ pos = 0
    /\ windows = FALSE
    /\ it = NoIter
    /\ shw = NoShow
    /\ last = [Outcome("init", 1, 0, FALSE) EXCEPT !.caps = 1]

(***************************************************************************)
(* Video.__init__(videofile), from the state before it.  exists: the path  *)
(* names an existing file (os.path.isfile).  last.a is 1 when it does.     *)
(***************************************************************************)
InitCtor ==
    /\ handle = "absent"
    /\ opened = FALSE /\ count = 0 /\ dec = 0 /\ dims = <<0, 0>>
    /\ pos = 0
    /\ windows = FALSE
    /\ it = NoIter
    /\ shw = NoShow
    /\ last = Outcome("none", 0, 0, FALSE)

\* line 13: if not os.path.isfile(videofile)
ConstructRaisesNever(exists) == FALSE
ConstructRaises(exists) == ~exists

Construct(exists) ==
    LET o == Outcome("init", IF exists THEN 1 ELSE 0, 0, FALSE) IN
    /\ handle = "absent"
    /\ UNCHANGED <<pos, windows, it, shw>>
    /\ IF ConstructRaises(exists)
       THEN /\ handle' = "failed"
            /\ last' = [o EXCEPT !.err = "IOError"]
            /\ UNCHANGED <<opened, count, dec, dims>>
       ELSE /\ handle' = "built"
            /\ last' = [o EXCEPT !.caps = 1]
            /\ \E v \in (IF exists THEN Videos ELSE {NoVideo}) :
                 /\ v.dec <= v.count
                 /\ opened' = v.opened /\ count' = v.count
                 /\ dec' = v.dec /\ dims' = v.dims

(***************************************************************************)
(* The properties length, width, height and shape.                         *)
(***************************************************************************)
Props == {"length", "width", "height", "shape"}

\* lines 41, 46, 51, 59: what the property evaluates to
PropValue(prop) ==
    CASE prop = "length" -> <<CapFrameCount>>
      [] prop = "width" -> <<CapFrameWidth>>
      [] prop = "height" -> <<CapFrameHeight>>
      [] prop = "shape" -> <<CapFrameCount, CapFrameHeight, CapFrameWidth>>

\* lines 38-59: none of the four tests cap.isOpened()
Query(prop) ==
    /\ Callable
    /\ it' = Disturb
    /\ UNCHANGED <<handle, opened, count, dec, dims, pos, windows, shw>>
    /\ last' = [Outcome(prop, 0, 0, FALSE) EXCEPT !.ret = TRUE, !.data = PropValue(prop)]

(***************************************************************************)
(* Video.__getitem__(index)                                                *)
(***************************************************************************)
\* line 30: if index >= count
IndexTooLargeOffByOne(index, cnt) == index > cnt
IndexTooLarge(index, cnt) == index >= cnt

\* line 32: the position handed to cap.set
GetItemSeekStale(index, p) == p
GetItemSeek(index, p) == index

GetItem(index) ==
    LET o == Outcome("getitem", index, 0, FALSE) IN
    /\ Callable
    /\ it' = Disturb
    /\ UNCHANGED <<handle, opened, count, dec, dims, windows, shw>>
    /\ IF ~opened
       THEN /\ last' = [o EXCEPT !.err = "IOError"]
            /\ pos' = pos
       ELSE IF IndexTooLarge(index, Length)
       THEN /\ last' = [o EXCEPT !.err = "ValueError"]
            /\ pos' = pos
       ELSE \E p \in CapSet(GetItemSeek(index, pos), pos) :
            LET r == CapRead(p) IN
            /\ pos' = r.pos
            /\ last' = IF ~r.ret
                       THEN [o EXCEPT !.err = "RuntimeError", !.sets = 1, !.reads = 1]
                       ELSE [o EXCEPT !.ret = TRUE, !.data = r.data,
                                      !.sets = 1, !.reads = 1]

(***************************************************************************)
(* Video.reset() and Video.seek(frameid)                                   *)
(***************************************************************************)
Reset ==
    LET o == Outcome("reset", 0, 0, FALSE) IN
    /\ Callable
    /\ it' = Disturb
    /\ UNCHANGED <<handle, opened, count, dec, dims, windows, shw>>
    /\ IF ~opened
       THEN /\ last' = [o EXCEPT !.err = "IOError"]
            /\ pos' = pos
       ELSE /\ pos' \in CapSet(0, pos)
            /\ last' = [o EXCEPT !.sets = 1]

\* line 123: the position handed to cap.set, as the caller gave it
SeekTargetOffByOne(frameid) == frameid + 1
SeekTarget(frameid) == frameid

\* lines 121-122: the one condition seek raises on, and what it raises
SeekErrorNegative(frameid) ==
    IF ~opened THEN "IOError" ELSE IF frameid < 0 THEN "ValueError" ELSE "none"
SeekError(frameid) == IF ~opened THEN "IOError" ELSE "none"

Seek(frameid) ==
    LET o == Outcome("seek", frameid, 0, FALSE) IN
    /\ Callable
    /\ it' = Disturb
    /\ UNCHANGED <<handle, opened, count, dec, dims, windows, shw>>
    /\ IF SeekError(frameid) /= "none"
       THEN /\ last' = [o EXCEPT !.err = SeekError(frameid)]
            /\ pos' = pos
       ELSE /\ pos' \in CapSet(SeekTarget(frameid), pos)
            /\ last' = [o EXCEPT !.sets = 1]

(***************************************************************************)
(* Video.next(cvtgray)                                                     *)
(***************************************************************************)
\* lines 70-71: cvtColor is applied to whatever the read handed back, and
\* raises on None
NextConvertFails(r, cvtgray) == cvtgray /\ r.data = None

NextOp(cvtgray) ==
    LET o == Outcome("next", 0, 0, cvtgray) IN
    /\ Callable
    /\ it' = Disturb
    /\ UNCHANGED <<handle, opened, count, dec, dims, windows, shw>>
    /\ IF ~opened
       THEN /\ last' = [o EXCEPT !.err = "IOError"]
            /\ pos' = pos
       ELSE LET r == CapRead(pos) IN
            /\ pos' = r.pos
            /\ last' = IF NextConvertFails(r, cvtgray)
                       THEN [o EXCEPT !.err = "cv2.error", !.reads = 1]
                       ELSE [o EXCEPT !.ret = r.ret, !.reads = 1,
                                      !.data = IF r.ret THEN Convert(r.data, cvtgray)
                                               ELSE r.data]

(***************************************************************************)
(* Video.__iter__(cvtgray): a generator.  IterNew is the call that makes   *)
(* the generator object (none of the body runs), IterResume is one         *)
(* next() on it, IterDrop is the consumer abandoning it.                   *)
(***************************************************************************)
\* the previous call ran a generator to its end
JustExhausted == last.op = "iter" /\ last.err = "none" /\ ~last.ret

IterNew(cvtgray) ==
    /\ Callable
    /\ it' = [NoIter EXCEPT !.pc = "created", !.gray = cvtgray, !.fresh = JustExhausted]
    /\ last' = Outcome("iternew", 0, 0, cvtgray)
    /\ UNCHANGED <<handle, opened, count, dec, dims, pos, windows, shw>>

\* line 86: self.reset() once the read has failed
IterEndKeepsPos(p) == {p}
IterEnd(p) == CapSet(0, p)

IterResume ==
    LET o == Outcome("iter", 0, 0, it.gray)
        first == it.pc = "created"
        g == IF first THEN [it EXCEPT !.start = pos] ELSE it
    IN
    /\ Callable
    /\ it.pc \in {"created", "suspended"}
    /\ UNCHANGED <<handle, opened, count, dec, dims, windows, shw>>
    /\ IF first /\ ~opened
       THEN /\ it' = [g EXCEPT !.pc = "done"]
            /\ last' = [o EXCEPT !.err = "IOError"]
            /\ pos' = pos
       ELSE LET r == CapRead(pos) IN
            IF r.ret
            THEN /\ it' = [g EXCEPT !.pc = "suspended",
                                    !.out = IF it.clean
                                            THEN Append(@, Convert(r.data, it.gray))
                                            ELSE @]
                 /\ last' = [o EXCEPT !.ret = TRUE, !.reads = 1,
                                      !.data = Convert(r.data, it.gray)]
                 /\ pos' = r.pos
            ELSE /\ it' = [g EXCEPT !.pc = "done"]
                 /\ last' = [o EXCEPT !.reads = 1, !.sets = 1]
                 /\ pos' \in IterEnd(r.pos)

\* the generator is closed at its yield (line 84): line 86 is not reached,
\* and the play-head p stays
IterDropResets(p) == 0
IterDropPos(p) == p

\* last.a is the play-head the iteration started at and last.b the number
\* of frames taken from it, last.ret that they are known (no other call
\* was made meanwhile)
IterDrop ==
    /\ Callable
    /\ it.pc \in {"created", "suspended"}
    /\ it' = NoIter
    /\ last' = [Outcome("iterdrop", it.start, Len(it.out), it.gray)
                 EXCEPT !.ret = it.clean /\ it.pc = "suspended"]
    /\ pos' = IterDropPos(pos)
    /\ UNCHANGED <<handle, opened, count, dec, dims, windows, shw>>

(***************************************************************************)
(* Video.snippet(start, final, cvtgray)                                    *)
(***************************************************************************)
\* lines 91-92 (and 128-129): final == 0 stands for the frame count
RangeFinalLiteral(final, cnt) == final
RangeFinal(final, cnt) == IF final = 0 THEN cnt ELSE final

\* lines 93-98 (and 130-135): the three checks that raise ValueError
RangeInvalidNoOrder(start, final, cnt) ==
    \/ start >= cnt
    \/ start < 0 \/ final < 0
RangeInvalid(start, final, cnt) ==
    \/ start >= cnt
    \/ start < 0 \/ final < 0
    \/ final < start

\* line 102: while ... and start <= final
LoopGoesOnExclusive(start, final) == start < final
LoopGoesOn(start, final) == start <= final

\* lines 102-109: the loop, from loop variable start with the play-head at p
\* and acc collected; the frames collected, the play-head and the number of
\* reads when it ends
RECURSIVE SnippetLoop(_, _, _, _, _, _)
SnippetLoop(start, final, cvtgray, p, acc, n) ==
    IF ~(opened /\ LoopGoesOn(start, final))
    THEN [frames |-> acc, pos |-> p, reads |-> n]
    ELSE LET r == CapRead(p) IN
         IF ~r.ret
         THEN [frames |-> acc, pos |-> r.pos, reads |-> n + 1]
         ELSE SnippetLoop(start + 1, final, cvtgray, r.pos,
                          Append(acc, Convert(r.data, cvtgray)), n + 1)

\* line 110: the position handed to cap.set before the return
SnippetEndKeepsPos(p) == {p}
SnippetEnd(p) == CapSet(0, p)

Snippet(start, final, cvtgray) ==
    LET o == Outcome("snippet", start, final, cvtgray)
        cnt == CapFrameCount
        fin == RangeFinal(final, cnt)
    IN
    /\ Callable
    /\ it' = Disturb
    /\ UNCHANGED <<handle, opened, count, dec, dims, windows, shw>>
    /\ IF RangeInvalid(start, fin, cnt)
       THEN /\ last' = [o EXCEPT !.err = "ValueError"]
            /\ pos' = pos
       ELSE \E p \in CapSet(start, pos) :
            LET l == SnippetLoop(start, fin, cvtgray, p, <<>>, 0) IN
            /\ pos' \in SnippetEnd(l.pos)
            /\ last' = [o EXCEPT !.ret = TRUE, !.frames = l.frames,
                                 !.reads = l.reads, !.sets = 2]

(***************************************************************************)
(* Video.show(start, final, delay, cvtgray).  ShowCall is lines 127-136,   *)
(* ShowStep one turn of the loop of lines 137-146, with the key that       *)
(* cv2.waitKey(delay) reports; the turn that leaves the loop also runs     *)
(* lines 147-148.  delay is a waiting time only.                           *)
(***************************************************************************)
\* lines 147-148: set(CAP_PROP_POS_FRAMES, 0) and destroyAllWindows()
ShowExitKeepsWindows(p) ==
    /\ pos' \in CapSet(0, p)
    /\ windows' = windows
    /\ shw' = NoShow
ShowExit(p) ==
    /\ pos' \in CapSet(0, p)
    /\ windows' = FALSE
    /\ shw' = NoShow

ShowCall(start, final, cvtgray) ==
    LET o == Outcome("show", start, final, cvtgray)
        cnt == CapFrameCount
        fin == RangeFinal(final, cnt)
    IN
    /\ Callable
    /\ it' = Disturb
    /\ UNCHANGED <<handle, opened, count, dec, dims, windows>>
    /\ IF RangeInvalid(start, fin, cnt)
       THEN /\ last' = [o EXCEPT !.err = "ValueError"]
            /\ pos' = pos
            /\ shw' = shw
       ELSE /\ pos' \in CapSet(start, pos)
            /\ last' = [o EXCEPT !.sets = 1]
            /\ shw' = [pc |-> "loop", start |-> start, final |-> fin, gray |-> cvtgray]

ShowStep(quit) ==
    /\ shw.pc = "loop"
    /\ UNCHANGED <<handle, opened, count, dec, dims, it>>
    /\ IF ~(opened /\ LoopGoesOn(shw.start, shw.final))
       THEN /\ ShowExit(pos)
            /\ last' = [last EXCEPT !.ret = TRUE, !.sets = @ + 1]
       ELSE LET r == CapRead(pos) IN
            IF ~r.ret
            THEN /\ ShowExit(r.pos)
                 /\ last' = [last EXCEPT !.ret = TRUE, !.reads = @ + 1, !.sets = @ + 1]
            ELSE IF quit
            THEN /\ ShowExit(r.pos)
                 /\ last' = [last EXCEPT !.ret = TRUE, !.reads = @ + 1, !.sets = @ + 1,
                                         !.shown = Append(@, Convert(r.data, shw.gray))]
            ELSE /\ pos' = r.pos
                 /\ windows' = TRUE
                 /\ shw' = [shw EXCEPT !.start = @ + 1]
                 /\ last' = [last EXCEPT !.reads = @ + 1,
                                         !.shown = Append(@, Convert(r.data, shw.gray))]

(***************************************************************************)
(* Video.astensor().  Line 151 evaluates self.shape (three cap.get calls,  *)
(* none raises), line 152 builds an array of the four numbers, and line    *)
(* 153 calls self.iterframes(), a method the class does not define: the    *)
(* attribute lookup raises AttributeError before the loop is entered.      *)
(***************************************************************************)
\* class Video, lines 8-155: there is no method iterframes
HasIterframesDefined == TRUE
HasIterframes == FALSE

AsTensor ==
    LET o == Outcome("astensor", 0, 0, FALSE) IN
    /\ Callable
    /\ it' = Disturb
    /\ UNCHANGED <<handle, opened, count, dec, dims, windows, shw>>
    /\ IF ~HasIterframes
       THEN /\ last' = [o EXCEPT !.err = "AttributeError"]
            /\ pos' = pos
       ELSE \* were it defined as the frame generator, the loop of lines
            \* 153-154 would read the stream to its end
            LET l == SnippetLoop(0, count, FALSE, pos, <<>>, 0) IN
            /\ pos' \in CapSet(0, l.pos)
            /\ last' = [o EXCEPT !.ret = TRUE, !.frames = l.frames,
                                 !.reads = l.reads, !.sets = 1]

(***************************************************************************)
(* Spec: every method called directly, in any order and with any           *)
(* arguments.  SpecIter: a program that also iterates over the video, with *)
(* other calls made between two resumptions of the generator.              *)
(***************************************************************************)
Next ==
    \/ \E index \in Args : GetItem(index)
    \/ \E cvtgray \in BOOLEAN : NextOp(cvtgray)
    \/ \E start, final \in Args, cvtgray \in BOOLEAN : Snippet(start, final, cvtgray)
    \/ Reset
    \/ \E frameid \in Args : Seek(frameid)
    \/ \E start, final \in Args, cvtgray \in BOOLEAN : ShowCall(start, final, cvtgray)
    \/ \E quit \in BOOLEAN : ShowStep(quit)
    \/ \E prop \in Props : Query(prop)
    \/ AsTensor

Spec == Init /\ [][Next]_vars

NextIter ==
    \/ \E cvtgray \in BOOLEAN : IterNew(cvtgray)
    \/ IterResume
    \/ IterDrop
    \/ \E index \in Args : GetItem(index)
    \/ \E cvtgray \in BOOLEAN : NextOp(cvtgray)
    \/ \E start, final \in Args, cvtgray \in BOOLEAN : Snippet(start, final, cvtgray)
    \/ Reset
    \/ \E frameid \in Args : Seek(frameid)

SpecIter == Init /\ [][NextIter]_vars

\* SpecCtor: the program from before Video(videofile) is called.
NextCtor ==
    \/ \E exists \in BOOLEAN : Construct(exists)
    \/ \E index \in Args : GetItem(index)
    \/ \E cvtgray \in BOOLEAN : NextOp(cvtgray)
    \/ Reset
    \/ \E frameid \in Args : Seek(frameid)
    \/ \E prop \in Props : Query(prop)

SpecCtor == InitCtor /\ [][NextCtor]_vars

\* SpecShow: a program that plays the video.  A call of show that is running
\* goes on running: cv2.waitKey(delay) returns after delay milliseconds at
\* the latest, so the next turn of the loop is taken.
ShowSteps == \E quit \in BOOLEAN : ShowStep(quit)

NextShow ==
    \/ \E start, final \in Args, cvtgray \in BOOLEAN : ShowCall(start, final, cvtgray)
    \/ ShowSteps
    \/ \E cvtgray \in BOOLEAN : NextOp(cvtgray)
    \/ \E frameid \in Args : Seek(frameid)

SpecShow == Init /\ [][NextShow]_vars /\ WF_vars(ShowSteps)

(***************************************************************************)
(* Properties.  They read the outcome record of the call just made: its    *)
(* arguments a and b, the play-head pre before it, what it raised (err),   *)
(* what it returned, and how many cap.set and cap.read calls it made.      *)
(***************************************************************************)
OpenCall(op) == last.op = op /\ opened

\* the frames lo, lo+1, ..., hi of the stream as a method returns them
FramesFromTo(lo, hi, gray) ==
    [i \in 1..(IF hi >= lo THEN hi - lo + 1 ELSE 0) |-> Convert(Frame(lo + i - 1), gray)]

Min(x, y) == IF x <= y THEN x ELSE y

\* C1: on an open handle, v[index] with index outside 0..frameCount-1,
\* negative indices included, raises ValueError and returns no frame.
C1_OutOfRangeRaises ==
    (OpenCall("getitem") /\ ~(0 <= last.a /\ last.a < count))
        => (last.err = "ValueError" /\ ~last.ret /\ last.data = None)

\* C2: on an open handle, v[frameCount + k] with k >= 0 raises ValueError
\* before any cap.set or cap.read, so the play-head is where it was.
C2_PastEndRaisesFirst ==
    (OpenCall("getitem") /\ last.a >= count)
        => /\ last.err = "ValueError"
           /\ last.sets = 0 /\ last.reads = 0
           /\ pos = last.pre

C2_Witness ==
    /\ OpenCall("getitem") /\ last.a > count /\ count > 0
    /\ last.pre > 0 /\ last.err = "ValueError" /\ pos = last.pre

\* C3: on an open handle whose frames are all decodable, v[i] with
\* 0 <= i < frameCount returns frame i whatever the play-head was, raises
\* nothing, and leaves the play-head at i + 1.
C3_ValidIndexReturnsFrame ==
    (OpenCall("getitem") /\ dec = count /\ 0 <= last.a /\ last.a < count)
        => /\ last.err = "none" /\ last.ret
           /\ last.data = Frame(last.a)
           /\ pos = last.a + 1
           /\ last.sets = 1 /\ last.reads = 1

C3_Witness ==
    /\ OpenCall("getitem") /\ dec = count /\ last.a = 1
    /\ last.pre = 3 /\ last.data = Frame(1) /\ pos = 2

\* C4 as claimed: snippet(0, 0) on a video with frameCount >= 1 returns
\* exactly one frame, frame 0.
C4_OneFrame ==
    (OpenCall("snippet") /\ last.a = 0 /\ last.b = 0 /\ count >= 1)
        => /\ last.err = "none"
           /\ last.frames = FramesFromTo(0, 0, last.gray)

\* C4 as amended: snippet(0, 0) on a video with frameCount >= 1 returns every
\* decodable frame from frame 0 to the end of the stream, in index order
\* (one frame only when the stream has a single decodable frame).
C4_AllFrames ==
    (OpenCall("snippet") /\ last.a = 0 /\ last.b = 0 /\ count >= 1)
        => /\ last.err = "none"
           /\ last.frames = FramesFromTo(0, dec - 1, last.gray)

C4_Witness ==
    /\ OpenCall("snippet") /\ last.a = 0 /\ last.b = 0
    /\ dec >= 2 /\ Len(last.frames) = dec /\ last.frames[2] = Frame(1)

\* C5: for 0 <= start < frameCount and any play-head, snippet(start, end)
\* with end /= 0 and start <= end returns the frames start .. min(end, last
\* decodable frame) in index order, and with end = 0 the frames from start to
\* the end of the stream.
C5_SnippetFrames ==
    (OpenCall("snippet") /\ 0 <= last.a /\ last.a < count)
        => /\ (last.b /= 0 /\ last.a <= last.b)
                => /\ last.err = "none"
                   /\ last.frames =
                        FramesFromTo(last.a, Min(last.b, dec - 1), last.gray)
           /\ (last.b = 0)
                => /\ last.err = "none"
                   /\ last.frames = FramesFromTo(last.a, dec - 1, last.gray)

C5_Witness ==
    /\ OpenCall("snippet") /\ last.a = 1 /\ last.b = 2 /\ last.pre = 3
    /\ dec = 3 /\ last.frames = <<Frame(1), Frame(2)>>

\* a range that snippet and show must refuse
Malformed(start, end, cnt) ==
    \/ start < 0 \/ end < 0
    \/ start >= cnt
    \/ (end /= 0 /\ end < start)

\* C6: snippet and show called with a malformed range raise ValueError
\* before any cap.set or cap.read: the play-head is where it was, no frame
\* is read, returned or shown, and no display loop is entered.
C6_MalformedRangeRaisesFirst ==
    (last.op \in {"snippet", "show"} /\ Malformed(last.a, last.b, count))
        => /\ last.err = "ValueError"
           /\ last.sets = 0 /\ last.reads = 0
           /\ pos = last.pre
           /\ last.frames = <<>> /\ last.shown = <<>>
           /\ shw.pc = "idle" /\ ~windows

C6_Witness ==
    /\ last.op = "show" /\ last.a < count /\ last.b > 0 /\ last.b < last.a
    /\ last.pre > 0 /\ last.err = "ValueError" /\ pos = last.pre

\* C7: whenever snippet returns its list, by either exit of its loop, the
\* play-head is 0, and the next read is that of frame 0 (which it yields
\* when the stream has a decodable frame at all).
C7_SnippetResetsPlayHead ==
    (last.op = "snippet" /\ last.err = "none")
        => /\ pos = 0
           /\ (dec > 0 => CapRead(pos).data = Frame(0))

C7_Witness ==
    /\ last.op = "snippet" /\ last.err = "none" /\ last.pre > 0
    /\ Len(last.frames) > 0 /\ last.reads > Len(last.frames) /\ pos = 0

\* C8: when a resumption of the generator finds the stream at its end, the
\* play-head is 0 right after it, wherever the iteration started.
C8_ExhaustionResets == JustExhausted => pos = 0

C8_Witness ==
    /\ JustExhausted /\ it.pc = "done" /\ it.clean
    /\ it.start > 0 /\ Len(it.out) > 0 /\ last.pre > 0 /\ pos = 0

\* C9 as claimed: an iteration that first runs with the play-head at p, and
\* is consumed to its end with no other call in between, yields the frames
\* p .. frameCount-1 in index order; one begun right after another ended
\* yields the frames 0 .. frameCount-1.
C9_YieldsToFrameCount ==
    (opened /\ it.pc = "done" /\ it.clean)
        => /\ it.out = FramesFromTo(it.start, count - 1, it.gray)
           /\ it.fresh => it.out = FramesFromTo(0, count - 1, it.gray)

\* C9 as amended: such an iteration yields the frames p .. d-1, where d is
\* the number of frames the stream can decode (d = frameCount when every
\* frame is decodable), and one begun right after another ended yields the
\* frames 0 .. d-1.
C9_YieldsToEndOfStream ==
    (opened /\ it.pc = "done" /\ it.clean)
        => /\ it.out = FramesFromTo(it.start, dec - 1, it.gray)
           /\ it.fresh => it.out = FramesFromTo(0, dec - 1, it.gray)

C9_Witness ==
    /\ opened /\ it.pc = "done" /\ it.clean /\ it.fresh
    /\ dec >= 2 /\ Len(it.out) = dec /\ it.out[dec] = Frame(dec - 1)

\* C10: on an open handle and for both values of cvtgray, next(cvtgray) with
\* a frame under the play-head returns (True, that frame) and moves the
\* play-head one on; at the end of the stream it raises nothing and returns
\* the flag False.
C10_NextNeverRaises ==
    OpenCall("next")
        => /\ last.pre < dec
                => /\ last.err = "none" /\ last.ret
                   /\ last.data = Convert(Frame(last.pre), last.gray)
                   /\ pos = last.pre + 1
           /\ last.pre >= dec
                => (last.err = "none" /\ ~last.ret)

\* C11: on an open handle, from any play-head (the end of the stream
\* included), seek(i) with 0 <= i < frameCount leaves the play-head at i and
\* reset() leaves it at 0, so that the next read is that of frame i, or of
\* frame 0 (which it yields when the stream can decode that frame).
C11_SeekAndResetPosition ==
    /\ (OpenCall("seek") /\ 0 <= last.a /\ last.a < count)
         => /\ last.err = "none"
            /\ pos = last.a
            /\ (last.a < dec => CapRead(pos).data = Frame(last.a))
    /\ OpenCall("reset")
         => /\ last.err = "none"
            /\ pos = 0
            /\ (dec > 0 => CapRead(pos).data = Frame(0))

C11_Witness ==
    /\ OpenCall("seek") /\ last.pre = count /\ count = dec /\ last.a = 1
    /\ count >= 3 /\ pos = 1

\* the calls C12 lists, by the op of their outcome (the generator raises
\* at its first resumption, op "iter")
Calls == {"getitem", "next", "iter", "snippet", "show", "reset", "seek"} \cup Props

\* C12: every operation on a handle whose session is not open raises
\* IOError: it returns nothing and raises nothing else.
C12_NotOpenRaisesIOError ==
    (~opened /\ handle = "built" /\ last.op \in Calls)
        => (last.err = "IOError" /\ ~last.ret)

\* what the calls on such a handle do: __getitem__, next, the generator,
\* reset and seek raise IOError; snippet and show raise ValueError (the
\* frame count reads 0); the four properties return zeros.
NotOpenOutcomes ==
    (~opened /\ handle = "built")
        => /\ last.op \in {"getitem", "next", "iter", "reset", "seek"}
                => (last.err = "IOError" /\ ~last.ret)
           /\ last.op \in {"snippet", "show"} => last.err = "ValueError"
           /\ last.op \in Props
                => /\ last.err = "none" /\ last.ret
                   /\ last.data \in {<<0>>, <<0, 0, 0>>}

\* C13 as claimed: seek(-1) on an open handle raises an error.
C13_SeekNegativeRaises ==
    (OpenCall("seek") /\ last.a = 0 - 1) => last.err /= "none"

\* C13 as amended: seek(-1) on an open handle raises nothing: it hands -1
\* to cap.set once, reads nothing, and the play-head is where the library
\* puts it (in the model: left where it was, or at 0).
C13_SeekNegativeUnchecked ==
    (OpenCall("seek") /\ last.a = 0 - 1)
        => /\ last.err = "none"
           /\ last.sets = 1 /\ last.reads = 0
           /\ pos \in {last.pre, 0}

C13_Witness ==
    /\ OpenCall("seek") /\ last.a = 0 - 1 /\ last.err = "none"
    /\ last.pre = 2 /\ pos = 2

\* C14: Video(path) on a path that names no existing file raises IOError
\* before cv2.VideoCapture is called: no session is made or opened, and no
\* Video object exists afterwards.
C14_MissingFileRaisesFirst ==
    (last.op = "init" /\ last.a = 0)
        => /\ last.err = "IOError"
           /\ last.caps = 0
           /\ handle = "failed"
           /\ ~opened

C14_Witness ==
    /\ last.op = "init" /\ last.a = 0 /\ last.err = "IOError"
    /\ handle = "failed" /\ last.caps = 0

\* the last index show(start, end) may render
ShowEnd(end) == IF end = 0 THEN count ELSE end

\* show, called with a valid range, has returned
ShowReturned == last.op = "show" /\ last.err = "none" /\ shw.pc = "idle"
ShowRunning == last.op = "show" /\ shw.pc = "loop"

\* what show has rendered is the frames start, start+1, ... in order, none
\* past end
ShownInOrder ==
    /\ last.shown = FramesFromTo(last.a, last.a + Len(last.shown) - 1, last.gray)
    /\ last.a + Len(last.shown) - 1 <= ShowEnd(last.b)

C15_Safety ==
    /\ ShowRunning => ShownInOrder
    /\ ShowReturned => (ShownInOrder /\ pos = 0 /\ ~windows)

\* the turn that leaves the loop because the range is finished or a read
\* failed renders nothing
C15_ExitStep ==
    (ShowRunning /\ shw'.pc = "idle" /\ last'.reads > Len(last'.shown))
        => last'.shown = last.shown

ReadFailureElsewhere ==
    (handle = "built" /\ opened /\ dec < count)
        => /\ (last.op = "getitem" /\ dec <= last.a /\ last.a < count)
                => (last.err = "RuntimeError" /\ ~last.ret)
           /\ (last.op = "snippet" /\ last.reads > Len(last.frames))
                => /\ last.err = "none" /\ last.ret
                   /\ last.frames = FramesFromTo(last.a, dec - 1, last.gray)
           /\ (last.op = "show" /\ last.reads > Len(last.shown))
                => (last.err = "none" /\ shw.pc = "idle")

\* and in next
ReadFailureInNext(grays) ==
    (handle = "built" /\ opened /\ dec < count)
        => ((last.op = "next" /\ last.gray \in grays /\ last.pre >= dec)
                => (last.err = "none" /\ ~last.ret))

\* C17: when a read produces no frame on such a stream, v[i] for an i in
\* range raises RuntimeError, snippet and show end their loop without an
\* error (snippet returning the frames it has collected), and next returns
\* the flag False.
C17_ReadFailureOutcomes == ReadFailureElsewhere /\ ReadFailureInNext(BOOLEAN)

\* all of it holds but for next(cvtgray=True)
ReadFailureOutcomesBGR == ReadFailureElsewhere /\ ReadFailureInNext({FALSE})

\* an iteration started at play-head last.a was dropped after last.b
\* frames, with no other call in between
DroppedAfterFrames == last.op = "iterdrop" /\ last.ret

\* the play-head is then at last.a + last.b, where the next read takes place
C18_DropKeepsPlayHead ==
    DroppedAfterFrames
        => /\ pos = last.a + last.b
           /\ pos = last.pre
           /\ (pos < dec => CapRead(pos).data = Frame(last.a + last.b))

\* a next() that follows returns that frame, not frame 0
C18_NextContinues ==
    (DroppedAfterFrames /\ last'.op = "next" /\ last.a + last.b < dec)
        => (last'.ret /\ last'.data = Convert(Frame(last.a + last.b), last'.gray))

\* every resumption of a generator, a new one or one between whose steps
\* seek, reset, v[i] or snippet was called, yields the frame under the
\* play-head as the call before it left it
C18_YieldsAtSharedPlayHead ==
    (last'.op = "iter" /\ last'.ret)
        => (last'.data = Convert(Frame(pos), last'.gray) /\ pos' = pos + 1)

\* C18: a generator dropped before its end leaves the play-head where its
\* last read put it (at p + k after k frames from p), a following next() or
\* new iteration goes on from there, and a call made between two of its
\* steps decides which frame it yields next.
C18_AbandonedIterationKeepsPlayHead ==
    /\ []C18_DropKeepsPlayHead
    /\ [][C18_NextContinues]_vars
    /\ [][C18_YieldsAtSharedPlayHead]_vars

C18_Witness ==
    /\ DroppedAfterFrames /\ last.a = 1 /\ last.b = 1 /\ pos = 2 /\ dec = 3

\* a generator yields a frame again after a call that moved the play-head
\* back: frame 0 after reset
C18_WitnessInterleaved ==
    /\ last.op = "iter" /\ last.ret /\ ~it.clean /\ it.pc = "suspended"
    /\ last.pre = 0 /\ last.data = Frame(0) /\ pos = 1

\* C19: astensor returns no tensor: on every handle, open or not, it
\* raises AttributeError (iterframes is not defined) before any frame is
\* read, and the play-head is where it was.
C19_AsTensorAlwaysFails ==
    last.op = "astensor"
        => /\ last.err = "AttributeError" /\ ~last.ret
           /\ last.frames = <<>>
           /\ last.reads = 0 /\ last.sets = 0
           /\ pos = last.pre

C19_Witness ==
    /\ last.op = "astensor" /\ opened /\ dec >= 2 /\ last.pre = 1
    /\ last.err = "AttributeError" /\ pos = 1

====
